---- MODULE Spec2Model ----
(***************************************************************************)
(* Session lifecycle and request routing of the Domain Q&A Agent API       *)
(* (src/main.py): the lifespan manager, the session store                  *)
(* app.state.user_sessions, get_or_create_agent and the /chat and /reset   *)
(* endpoints.  Requests run on one asyncio event loop, so a handler is     *)
(* atomic between two awaits; the only await of the module is              *)
(* `await agent.achat(...)` in chat.                                       *)
(*                                                                         *)
(* Strings are modelled by integers: None is the absent cookie, EmptyStr   *)
(* the empty string "", 1..MaxUuids the values str(uuid.uuid4()) can       *)
(* return and 101..100+MaxForged strings a client makes up *)
(* itself.  uuid4 is taken as an ideal random source: it never returns a   *)
(* value it returned before, and a client cannot present a uuid that was   *)
(* not delivered to it.                                                    *)
(***************************************************************************)
EXTENDS Integers, Sequences, FiniteSets, TLC

\* ---- bounds of the model ----
MaxUuids == 2          \* values uuid4 can return
MaxForged == 1         \* cookie strings made up by a client
MaxRequests == 2       \* requests received over the life of the process
MaxFailures == 1       \* calls of the agent (reset_memory, achat) that raise
MaxLen == 2            \* characters of the value of a numeric environment variable

\* ---- values ----
None == -1
EmptyStr == 0
UUIDs == 1..MaxUuids
Forged == {100 + k : k \in 1..MaxForged}
Messages == {"hello"}
NoAgent == 0
NoConfig == [absent |-> TRUE]
KeyValues == {"absent", "empty", "placeholder", "valid"}
NotRead == [read |-> FALSE]

\* Python truthiness of an Optional[str]: None and "" are falsy.
Truthy(s) == s # None /\ s # EmptyStr

VARIABLES
    env,        \* the environment as lifespan read it: the two credentials
    phase,      \* position of lifespan: UNINITIALIZED, READY, TERMINATED, FAILED
    app,        \* app.state: has_user_sessions, user_sessions, config
    heap,       \* the DomainQAAgent objects ever constructed; the index is the identity
    requests,   \* the requests received, in arrival order, with their handler's locals
    issued,     \* values uuid4 has returned so far
    creations   \* history: for each constructed agent, the key and the phase of its construction

vars == <<env, phase, app, heap, requests, issued, creations>>

\* ---- configuration (src/main.py:44-82) ----
\* Variant with a slip: the placeholder strings are not refused.
validate_api_keys_no_placeholder(e) ==
    IF e.google \in {"absent", "empty"} THEN [raised |-> TRUE]
    ELSE IF e.tavily \in {"absent", "empty"} THEN [raised |-> TRUE]
    ELSE [raised |-> FALSE, google_api_key |-> e.google, tavily_api_key |-> e.tavily]

validate_api_keys(e) ==
    IF e.google \in {"absent", "empty", "placeholder"} THEN [raised |-> TRUE]
    ELSE IF e.tavily \in {"absent", "empty", "placeholder"} THEN [raised |-> TRUE]
    ELSE [raised |-> FALSE, google_api_key |-> e.google, tavily_api_key |-> e.tavily]

\* An environment variable is unset or holds a string.  The value of a
\* numeric variable is a sequence of characters of Alphabet, the value of
\* SEARCH_DEPTH and ENABLE_SEARCH_SUMMARIZATION one of a few words.
Unset == [set |-> FALSE]
Str(v) == [set |-> TRUE, v |-> v]
Digits == {"0", "7"}
Alphabet == Digits \cup {"-", ".", " ", "a"}
DigitVal(c) == IF c = "0" THEN 0 ELSE 7

RECURSIVE Pow10(_)
Pow10(n) == IF n = 0 THEN 1 ELSE 10 * Pow10(n - 1)

\* A float is held in fixed point, in units of 10^-MaxLen.
FloatUnit == Pow10(MaxLen)

\* str.strip() as int() and float() apply it
RECURSIVE LStrip(_)
LStrip(s) == IF s # <<>> /\ Head(s) = " " THEN LStrip(Tail(s)) ELSE s
RECURSIVE RStrip(_)
RStrip(s) ==
    IF s # <<>> /\ s[Len(s)] = " " THEN RStrip(SubSeq(s, 1, Len(s) - 1)) ELSE s
Strip(s) == RStrip(LStrip(s))

\* the number a run of decimal digits denotes, read left to right
RECURSIVE Accumulate(_, _)
Accumulate(acc, d) ==
    IF d = <<>> THEN acc ELSE Accumulate(10 * acc + DigitVal(Head(d)), Tail(d))

AllDigits(d) == \A i \in DOMAIN d : d[i] \in Digits

\* int(str): ValueError unless the stripped text is an optional sign and digits
py_int(s) ==
    LET t == Strip(s)
        neg == t # <<>> /\ Head(t) = "-"
        d == IF neg THEN Tail(t) ELSE t
    IN IF d = <<>> \/ ~AllDigits(d)
       THEN [raised |-> TRUE]
       ELSE [raised |-> FALSE, value |-> (IF neg THEN -1 ELSE 1) * Accumulate(0, d)]

\* float(str): ValueError unless the stripped text is an optional sign and
\* digits with at most one point and at least one digit
py_float(s) ==
    LET t == Strip(s)
        neg == t # <<>> /\ Head(t) = "-"
        d == IF neg THEN Tail(t) ELSE t
        dots == {i \in DOMAIN d : d[i] = "."}
        p == IF dots = {} THEN Len(d) + 1 ELSE CHOOSE i \in dots : TRUE
        whole == SubSeq(d, 1, p - 1)
        frac == SubSeq(d, p + 1, Len(d))
    IN IF \/ Cardinality(dots) > 1
          \/ ~AllDigits(whole) \/ ~AllDigits(frac)
          \/ (whole = <<>> /\ frac = <<>>)
       THEN [raised |-> TRUE]
       ELSE [raised |-> FALSE,
             value |-> (IF neg THEN -1 ELSE 1)
                         * (Accumulate(0, whole) * FloatUnit
                            + Accumulate(0, frac) * Pow10(MaxLen - Len(frac)))]

\* ---- get_int_env (src/main.py:26-32) ----
\* Variant with a slip: the ValueError is not caught.
get_int_env_no_except(raw, default) ==
    IF ~raw.set THEN [raised |-> FALSE, value |-> default] ELSE py_int(raw.v)

get_int_env(raw, default) ==
    IF ~raw.set THEN [raised |-> FALSE, value |-> default]
    ELSE LET r == py_int(raw.v)
         IN IF r.raised THEN [raised |-> FALSE, value |-> default] ELSE r

\* ---- get_float_env (src/main.py:35-41) ----
get_float_env(raw, default) ==
    IF ~raw.set THEN [raised |-> FALSE, value |-> default]
    ELSE LET r == py_float(raw.v)
         IN IF r.raised THEN [raised |-> FALSE, value |-> default] ELSE r

\* str.lower() on the words the model uses
Lower(w) == IF w \in {"True", "TRUE"} THEN "true" ELSE w

\* the default of LLM_TEMPERATURE, 0.1, in fixed point
DefaultTemperature == FloatUnit \div 10

\* ---- build_config (src/main.py:58-82) ----
\* An exception raised by a call is passed on to the caller.
build_config(e) ==
    LET k == validate_api_keys(e)
        depth == IF e.SEARCH_DEPTH.set THEN e.SEARCH_DEPTH.v ELSE "basic"
        search_depth == IF depth \notin {"basic", "advanced"} THEN "basic" ELSE depth
        max_results == get_int_env(e.MAX_RESULTS, 10)
        max_content_size == get_int_env(e.MAX_CONTENT_SIZE, 10000)
        max_scrape_length == get_int_env(e.MAX_SCRAPE_LENGTH, 20000)
        summarize == IF e.ENABLE_SEARCH_SUMMARIZATION.set
                     THEN e.ENABLE_SEARCH_SUMMARIZATION.v ELSE "false"
        llm_temperature == get_float_env(e.LLM_TEMPERATURE, DefaultTemperature)
        llm_max_tokens == get_int_env(e.LLM_MAX_TOKENS, 3000)
        request_timeout == get_int_env(e.REQUEST_TIMEOUT, 30)
        llm_timeout == get_int_env(e.LLM_TIMEOUT, 60)
    IN IF \/ k.raised \/ max_results.raised \/ max_content_size.raised
          \/ max_scrape_length.raised \/ llm_temperature.raised
          \/ llm_max_tokens.raised \/ request_timeout.raised \/ llm_timeout.raised
       THEN [raised |-> TRUE]
       ELSE [raised |-> FALSE,
             config |-> [absent |-> FALSE,
                         google_api_key |-> k.google_api_key,
                         tavily_api_key |-> k.tavily_api_key,
                         max_results |-> max_results.value,
                         search_depth |-> search_depth,
                         max_content_size |-> max_content_size.value,
                         max_scrape_length |-> max_scrape_length.value,
                         enable_search_summarization |-> Lower(summarize) = "true",
                         llm_temperature |-> llm_temperature.value,
                         llm_max_tokens |-> llm_max_tokens.value,
                         request_timeout |-> request_timeout.value,
                         llm_timeout |-> llm_timeout.value]]

\* ---- create_config (src/main.py:93-102): logs, and re-raises ----
create_config(e) == build_config(e)

\* ---- the environments the model starts the process in ----
IntKeys == {"MAX_RESULTS", "MAX_CONTENT_SIZE", "MAX_SCRAPE_LENGTH",
            "LLM_MAX_TOKENS", "REQUEST_TIMEOUT", "LLM_TIMEOUT"}
NumericKeys == IntKeys \cup {"LLM_TEMPERATURE"}
WordKeys == {"SEARCH_DEPTH", "ENABLE_SEARCH_SUMMARIZATION"}
DepthWords == {"basic", "advanced", "deep", "Basic", ""}
FlagWords == {"true", "True", "TRUE", "false", "1"}
Texts == UNION {[1..n -> Alphabet] : n \in 0..MaxLen}

\* only the two credentials set
EnvWith(g, t) ==
    [k \in NumericKeys \cup WordKeys \cup {"google", "tavily"} |->
        IF k = "google" THEN g ELSE IF k = "tavily" THEN t ELSE Unset]

\* valid credentials and at most one optional variable set
LoadEnvs ==
    {EnvWith("valid", "valid")}
    \cup {[EnvWith("valid", "valid") EXCEPT ![k] = Str(v)] : k \in NumericKeys, v \in Texts}
    \cup {[EnvWith("valid", "valid") EXCEPT !["SEARCH_DEPTH"] = Str(w)] : w \in DepthWords}
    \cup {[EnvWith("valid", "valid") EXCEPT !["ENABLE_SEARCH_SUMMARIZATION"] = Str(w)] :
             w \in FlagWords}

\* ---- the opaque agent (qa_agent.DomainQAAgent), through its interface ----
DomainQAAgent(config) == [config |-> config, memory |-> <<>>]
agent_reset_memory(a) == [a EXCEPT !.memory = <<>>]
agent_achat(a, message) == [a EXCEPT !.memory = Append(@, message)]

\* Variant with a slip: the memory is one object shared by all agents.
call_reset_memory_all(h, agent) == [k \in DOMAIN h |-> agent_reset_memory(h[k])]

\* agent.reset_memory() on the object a reference points to (main.py:196, 213)
call_reset_memory(h, agent) == [h EXCEPT ![agent] = agent_reset_memory(@)]

\* Variants of get_or_create_agent with a slip in it.
\* No membership test: every resolve constructs and overwrites.
get_or_create_agent_always_new(a, h, session_id) ==
    IF ~a.has_user_sessions
    THEN [raised |-> 500, app |-> a, heap |-> h, agent |-> NoAgent, created |-> FALSE]
    ELSE LET h1 == Append(h, DomainQAAgent(a.config))
             a1 == [a EXCEPT !.user_sessions = (session_id :> Len(h1)) @@ @]
         IN [raised |-> 0, app |-> a1, heap |-> h1,
             agent |-> a1.user_sessions[session_id], created |-> TRUE]

\* Constructs first, inserts if absent, returns what it constructed.
get_or_create_agent_own_instance(a, h, session_id) ==
    IF ~a.has_user_sessions
    THEN [raised |-> 500, app |-> a, heap |-> h, agent |-> NoAgent, created |-> FALSE]
    ELSE LET h1 == Append(h, DomainQAAgent(a.config))
             a1 == IF session_id \notin DOMAIN a.user_sessions
                   THEN [a EXCEPT !.user_sessions = (session_id :> Len(h1)) @@ @]
                   ELSE a
         IN [raised |-> 0, app |-> a1, heap |-> h1, agent |-> Len(h1), created |-> TRUE]

\* One agent for the whole process: a new key is bound to an agent already stored.
get_or_create_agent_single(a, h, session_id) ==
    IF ~a.has_user_sessions
    THEN [raised |-> 500, app |-> a, heap |-> h, agent |-> NoAgent, created |-> FALSE]
    ELSE IF session_id \notin DOMAIN a.user_sessions
         THEN IF DOMAIN a.user_sessions # {}
              THEN LET k == CHOOSE k \in DOMAIN a.user_sessions : TRUE
                       a1 == [a EXCEPT !.user_sessions =
                                            (session_id :> a.user_sessions[k]) @@ @]
                   IN [raised |-> 0, app |-> a1, heap |-> h,
                       agent |-> a1.user_sessions[session_id], created |-> FALSE]
              ELSE LET h1 == Append(h, DomainQAAgent(a.config))
                       a1 == [a EXCEPT !.user_sessions = (session_id :> Len(h1)) @@ @]
                   IN [raised |-> 0, app |-> a1, heap |-> h1,
                       agent |-> a1.user_sessions[session_id], created |-> TRUE]
         ELSE [raised |-> 0, app |-> a, heap |-> h,
               agent |-> a.user_sessions[session_id], created |-> FALSE]

\* No check of the store: a missing store is made on the spot.
get_or_create_agent_lazy_store(a, h, session_id) ==
    LET a0 == [a EXCEPT !.has_user_sessions = TRUE]
    IN IF session_id \notin DOMAIN a0.user_sessions
       THEN LET h1 == Append(h, DomainQAAgent(a0.config))
                a1 == [a0 EXCEPT !.user_sessions = (session_id :> Len(h1)) @@ @]
            IN [raised |-> 0, app |-> a1, heap |-> h1,
                agent |-> a1.user_sessions[session_id], created |-> TRUE]
       ELSE [raised |-> 0, app |-> a0, heap |-> h,
             agent |-> a0.user_sessions[session_id], created |-> FALSE]

\* ---- session store (src/main.py:137-146) ----
get_or_create_agent(a, h, session_id) ==
    IF ~a.has_user_sessions
    THEN [raised |-> 500, app |-> a, heap |-> h, agent |-> NoAgent, created |-> FALSE]
    ELSE IF session_id \notin DOMAIN a.user_sessions
         THEN LET h1 == Append(h, DomainQAAgent(a.config))
                  a1 == [a EXCEPT !.user_sessions = (session_id :> Len(h1)) @@ @]
              IN [raised |-> 0, app |-> a1, heap |-> h1,
                  agent |-> a1.user_sessions[session_id], created |-> TRUE]
         ELSE [raised |-> 0, app |-> a, heap |-> h,
               agent |-> a.user_sessions[session_id], created |-> FALSE]

\* ---- token issue in chat (src/main.py:179-188) ----
\* Variants with a slip: `is None` instead of `not`, and minting always.
ensure_session_id_is_none(cookie, uuid) ==
    IF cookie = None
    THEN [session_id |-> uuid, set_cookie |-> uuid, minted |-> TRUE]
    ELSE [session_id |-> cookie, set_cookie |-> None, minted |-> FALSE]

ensure_session_id_always(cookie, uuid) ==
    [session_id |-> uuid, set_cookie |-> uuid, minted |-> TRUE]

ensure_session_id(cookie, uuid) ==
    IF ~Truthy(cookie)
    THEN [session_id |-> uuid, set_cookie |-> uuid, minted |-> TRUE]
    ELSE [session_id |-> cookie, set_cookie |-> None, minted |-> FALSE]

\* A request record: the inputs, the handler's locals and the response.
\*   sub_cookie     cookie set on the injected Response parameter
\*   calls          agent methods the handler has invoked, in order
\*   agent_raised   the last of these calls raised
\*   pc             "achat" while suspended in await agent.achat, else "done"
\*   status         0 while pending, else the HTTP status
\*   body_session   session_id of the ChatResponse body (None if there is none)
\*   client_cookie  Set-Cookie of the HTTP response the client receives
\*   phase          history: the phase of the process when the request arrived
\*   pre_keys, post_keys   history: the store's keys before and after the
\*                         synchronous part of the handler
\*   pre_known      history: uuids issued before the request arrived
\*   active_sessions   the count a health check reports (None for the others)
Req(kind, cookie, rm, msg, sid, sub, agent, calls, raised, pc, status, pre, post) ==
    [kind |-> kind, cookie |-> cookie, reset_memory |-> rm, message |-> msg,
     session_id |-> sid, sub_cookie |-> sub, agent |-> agent, calls |-> calls,
     agent_raised |-> raised, pc |-> pc, status |-> status,
     body_session |-> None, client_cookie |-> None,
     phase |-> phase, pre_keys |-> pre, post_keys |-> post, pre_known |-> issued,
     active_sessions |-> None]

\* ---- the optional reset of chat (src/main.py:195-197) ----
\* Variant with a slip: the flag is not looked at.
chat_maybe_reset_always(h, agent, rm) ==
    [heap |-> call_reset_memory(h, agent), calls |-> <<"reset_memory">>]

chat_maybe_reset(h, agent, rm) ==
    IF rm
    THEN [heap |-> call_reset_memory(h, agent), calls |-> <<"reset_memory">>]
    ELSE [heap |-> h, calls |-> <<>>]

\* ---- /chat up to the await (src/main.py:174-200) ----
\* FastAPI merges the injected Response's headers into the reply only when
\* the endpoint returns; a raised exception is answered without them.
chat(a, h, rm, msg, cookie, uuid, reset_raises) ==
    LET t == ensure_session_id(cookie, uuid)
        g == get_or_create_agent(a, h, t.session_id)
        pre == DOMAIN a.user_sessions
        post == DOMAIN g.app.user_sessions
    IN IF g.raised # 0
       THEN [app |-> g.app, heap |-> g.heap, created |-> g.created, minted |-> t.minted,
             req |-> Req("chat", cookie, rm, msg, t.session_id, t.set_cookie, NoAgent,
                         <<>>, FALSE, "done", g.raised, pre, post)]
       ELSE IF rm /\ reset_raises
       THEN [app |-> g.app, heap |-> g.heap, created |-> g.created, minted |-> t.minted,
             req |-> Req("chat", cookie, rm, msg, t.session_id, t.set_cookie, g.agent,
                         <<"reset_memory">>, TRUE, "done", 500, pre, post)]
       ELSE LET m == chat_maybe_reset(g.heap, g.agent, rm)
            IN [app |-> g.app, heap |-> m.heap, created |-> g.created,
                minted |-> t.minted,
                req |-> Req("chat", cookie, rm, msg, t.session_id, t.set_cookie, g.agent,
                            m.calls \o <<"achat">>, FALSE, "achat", 0, pre, post)]

\* ---- /chat after the await (src/main.py:200-203) ----
\* Variant with a slip: the exception is caught and answered as a success.
chat_resume_swallow(a, h, r, achat_raises) ==
    IF achat_raises
    THEN [app |-> a, heap |-> h,
          req |-> [r EXCEPT !.pc = "done", !.status = 200, !.agent_raised = TRUE,
                            !.body_session = r.session_id,
                            !.client_cookie = r.sub_cookie]]
    ELSE [app |-> a, heap |-> [h EXCEPT ![r.agent] = agent_achat(@, r.message)],
          req |-> [r EXCEPT !.pc = "done", !.status = 200,
                            !.body_session = r.session_id,
                            !.client_cookie = r.sub_cookie]]

\* Variant with a slip: a session made for the request is removed when achat fails.
chat_resume_rollback(a, h, r, achat_raises) ==
    IF achat_raises
    THEN [app |-> IF r.sub_cookie # None
                  THEN [a EXCEPT !.user_sessions =
                           [k \in DOMAIN a.user_sessions \ {r.session_id} |->
                               a.user_sessions[k]]]
                  ELSE a,
          heap |-> h,
          req |-> [r EXCEPT !.pc = "done", !.status = 500, !.agent_raised = TRUE]]
    ELSE [app |-> a, heap |-> [h EXCEPT ![r.agent] = agent_achat(@, r.message)],
          req |-> [r EXCEPT !.pc = "done", !.status = 200,
                            !.body_session = r.session_id,
                            !.client_cookie = r.sub_cookie]]

\* An exception of achat is not caught: FastAPI answers 500 without the
\* injected Response's headers.
chat_resume(a, h, r, achat_raises) ==
    IF achat_raises
    THEN [app |-> a, heap |-> h,
          req |-> [r EXCEPT !.pc = "done", !.status = 500, !.agent_raised = TRUE]]
    ELSE [app |-> a, heap |-> [h EXCEPT ![r.agent] = agent_achat(@, r.message)],
          req |-> [r EXCEPT !.pc = "done", !.status = 200,
                            !.body_session = r.session_id,
                            !.client_cookie = r.sub_cookie]]

\* ---- the guard of /reset (src/main.py:209-210) ----
\* Variant with a slip: `is None` instead of `not`.
no_session_is_none(cookie) == cookie = None

no_session(cookie) == ~Truthy(cookie)

\* ---- /reset (src/main.py:206-215) ----
\* Variant with a slip: an unknown token is refused instead of given an agent,
\* and a known one is answered without the reset.
reset_memory_lookup_only(a, h, cookie, reset_raises) ==
    LET pre == DOMAIN a.user_sessions
    IN IF no_session(cookie) \/ cookie \notin pre
       THEN [app |-> a, heap |-> h, created |-> FALSE,
             req |-> Req("reset", cookie, FALSE, "", cookie, None, NoAgent,
                         <<>>, FALSE, "done", 400, pre, pre)]
       ELSE [app |-> a, heap |-> h, created |-> FALSE,
             req |-> Req("reset", cookie, FALSE, "", cookie, None,
                         a.user_sessions[cookie], <<>>, FALSE, "done", 200, pre, pre)]

\* Variant with a slip: the session is ended, its entry removed after the reset.
reset_memory_drop(a, h, cookie, reset_raises) ==
    LET pre == DOMAIN a.user_sessions
    IN IF no_session(cookie)
       THEN [app |-> a, heap |-> h, created |-> FALSE,
             req |-> Req("reset", cookie, FALSE, "", cookie, None, NoAgent,
                         <<>>, FALSE, "done", 400, pre, pre)]
       ELSE LET g == get_or_create_agent(a, h, cookie)
                gone == [g.app EXCEPT !.user_sessions =
                           [k \in DOMAIN g.app.user_sessions \ {cookie} |->
                               g.app.user_sessions[k]]]
                post == DOMAIN gone.user_sessions
            IN IF g.raised # 0
               THEN [app |-> g.app, heap |-> g.heap, created |-> g.created,
                     req |-> Req("reset", cookie, FALSE, "", cookie, None, NoAgent,
                                 <<>>, FALSE, "done", g.raised, pre, pre)]
               ELSE IF reset_raises
               THEN [app |-> g.app, heap |-> g.heap, created |-> g.created,
                     req |-> Req("reset", cookie, FALSE, "", cookie, None, g.agent,
                                 <<"reset_memory">>, TRUE, "done", 500, pre,
                                 DOMAIN g.app.user_sessions)]
               ELSE [app |-> gone, heap |-> call_reset_memory(g.heap, g.agent),
                     created |-> g.created,
                     req |-> Req("reset", cookie, FALSE, "", cookie, None, g.agent,
                                 <<"reset_memory">>, FALSE, "done", 200, pre, post)]

reset_memory(a, h, cookie, reset_raises) ==
    LET pre == DOMAIN a.user_sessions
    IN IF no_session(cookie)
       THEN [app |-> a, heap |-> h, created |-> FALSE,
             req |-> Req("reset", cookie, FALSE, "", cookie, None, NoAgent,
                         <<>>, FALSE, "done", 400, pre, pre)]
       ELSE LET g == get_or_create_agent(a, h, cookie)
                post == DOMAIN g.app.user_sessions
            IN IF g.raised # 0
               THEN [app |-> g.app, heap |-> g.heap, created |-> g.created,
                     req |-> Req("reset", cookie, FALSE, "", cookie, None, NoAgent,
                                 <<>>, FALSE, "done", g.raised, pre, post)]
               ELSE IF reset_raises
               THEN [app |-> g.app, heap |-> g.heap, created |-> g.created,
                     req |-> Req("reset", cookie, FALSE, "", cookie, None, g.agent,
                                 <<"reset_memory">>, TRUE, "done", 500, pre, post)]
               ELSE [app |-> g.app, heap |-> call_reset_memory(g.heap, g.agent),
                     created |-> g.created,
                     req |-> Req("reset", cookie, FALSE, "", cookie, None, g.agent,
                                 <<"reset_memory">>, FALSE, "done", 200, pre, post)]

\* ---- /health (src/main.py:160-170) ----
\* Variant with a slip: no hasattr test, so a missing store is an
\* AttributeError and the answer is 500.
health_check_no_guard(a) ==
    IF a.has_user_sessions
    THEN [app |-> a,
          req |-> [Req("health", None, FALSE, "", None, None, NoAgent, <<>>, FALSE,
                       "done", 200, DOMAIN a.user_sessions, DOMAIN a.user_sessions)
                   EXCEPT !.active_sessions = Cardinality(DOMAIN a.user_sessions)]]
    ELSE [app |-> a,
          req |-> Req("health", None, FALSE, "", None, None, NoAgent, <<>>, FALSE,
                      "done", 500, DOMAIN a.user_sessions, DOMAIN a.user_sessions)]

health_check(a) ==
    LET n == IF a.has_user_sessions THEN Cardinality(DOMAIN a.user_sessions) ELSE 0
    IN [app |-> a,
        req |-> [Req("health", None, FALSE, "", None, None, NoAgent, <<>>, FALSE,
                     "done", 200, DOMAIN a.user_sessions, DOMAIN a.user_sessions)
                 EXCEPT !.active_sessions = n]]

\* ---- lifespan after the yield (src/main.py:121-126) ----
\* Variant with a slip: the sessions are logged but the store is not cleared.
lifespan_shutdown_log_only(a) == a

\* Variant with a slip: the cleanup also drops the configuration.
lifespan_shutdown_drops_config(a) ==
    IF a.has_user_sessions
    THEN [a EXCEPT !.user_sessions = <<>>, !.config = NoConfig]
    ELSE a

lifespan_shutdown(a) ==
    IF a.has_user_sessions THEN [a EXCEPT !.user_sessions = <<>>] ELSE a

\* ---- what a client can send as the session_id cookie ----
Delivered == {requests[i].client_cookie : i \in DOMAIN requests} \ {None}
Cookies == {None, EmptyStr} \cup Forged \cup Delivered

\* calls of the agent that have raised so far
Failures ==
    Cardinality({i \in DOMAIN requests :
                   requests[i].status = 500 /\ requests[i].agent # NoAgent})

Init ==
    /\ env = NotRead
    /\ phase = "UNINITIALIZED"
    /\ app = [has_user_sessions |-> FALSE, user_sessions |-> <<>>, config |-> NoConfig]
    /\ heap = <<>>
    /\ requests = <<>>
    /\ issued = {}
    /\ creations = <<>>

\* lifespan before the yield (src/main.py:105-119)
StartupWith(e) ==
    /\ phase = "UNINITIALIZED"
    /\ LET c == create_config(e)
       IN /\ env' = e
          /\ IF c.raised
             THEN /\ phase' = "FAILED"
                  /\ app' = app
             ELSE /\ phase' = "READY"
                  /\ app' = [has_user_sessions |-> TRUE, user_sessions |-> <<>>,
                             config |-> c.config]
    /\ UNCHANGED <<heap, requests, issued, creations>>

\* the process starts with some credentials and the optional variables unset
Startup == \E g \in KeyValues, t \in KeyValues : StartupWith(EnvWith(g, t))

\* lifespan after the yield (src/main.py:121-126)
Shutdown ==
    /\ phase = "READY"
    /\ phase' = "TERMINATED"
    /\ app' = lifespan_shutdown(app)
    /\ UNCHANGED <<env, heap, requests, issued, creations>>

Record(res, sid) ==
    IF res.created THEN Append(creations, [token |-> sid, phase |-> phase]) ELSE creations

\* str(uuid.uuid4()) (src/main.py:180): a value it has not returned before.
\* The program never looks into a token (it only compares tokens for
\* equality), so the unused values are interchangeable and the least of them
\* stands for whichever one the random source returns.
uuid4 ==
    IF UUIDs \ issued = {} THEN {}
    ELSE {CHOOSE u \in UUIDs \ issued : \A v \in UUIDs \ issued : u <= v}

\* POST /chat arrives and runs to its await or to its error
Chat ==
    /\ Len(requests) < MaxRequests
    /\ \E cookie \in Cookies, rm \in BOOLEAN, msg \in Messages, reset_raises \in BOOLEAN :
         /\ reset_raises => rm /\ app.has_user_sessions /\ Failures < MaxFailures
         /\ \E uuid \in (IF Truthy(cookie) THEN {None} ELSE uuid4) :
              LET res == chat(app, heap, rm, msg, cookie, uuid, reset_raises)
              IN /\ app' = res.app
                 /\ heap' = res.heap
                 /\ requests' = Append(requests, res.req)
                 /\ issued' = IF uuid # None THEN issued \cup {uuid} ELSE issued
                 /\ creations' = Record(res, res.req.session_id)
    /\ UNCHANGED <<env, phase>>

\* agent.achat completes or raises and chat returns
ChatResume ==
    /\ \E i \in DOMAIN requests, achat_raises \in BOOLEAN :
         /\ requests[i].pc = "achat"
         /\ achat_raises => Failures < MaxFailures
         /\ LET res == chat_resume(app, heap, requests[i], achat_raises)
            IN /\ app' = res.app
               /\ heap' = res.heap
               /\ requests' = [requests EXCEPT ![i] = res.req]
    /\ UNCHANGED <<env, phase, issued, creations>>

\* Variant with a slip in the design: the requests of one session are
\* serialized, a reset waits while a chat of its token is in achat.
ResetWith_serialized(cookie) ==
    /\ Len(requests) < MaxRequests
    /\ \A i \in DOMAIN requests :
          requests[i].pc = "achat" => requests[i].session_id # cookie
    /\ \E reset_raises \in BOOLEAN :
         /\ reset_raises => Truthy(cookie) /\ app.has_user_sessions
                                           /\ Failures < MaxFailures
         /\ LET res == reset_memory(app, heap, cookie, reset_raises)
            IN /\ app' = res.app
               /\ heap' = res.heap
               /\ requests' = Append(requests, res.req)
               /\ creations' = Record(res, cookie)
    /\ UNCHANGED <<env, phase, issued>>

\* POST /reset with the given session_id cookie
ResetWith(cookie) ==
    /\ Len(requests) < MaxRequests
    /\ \E reset_raises \in BOOLEAN :
         /\ reset_raises => Truthy(cookie) /\ app.has_user_sessions
                                           /\ Failures < MaxFailures
         /\ LET res == reset_memory(app, heap, cookie, reset_raises)
            IN /\ app' = res.app
               /\ heap' = res.heap
               /\ requests' = Append(requests, res.req)
               /\ creations' = Record(res, cookie)
    /\ UNCHANGED <<env, phase, issued>>

\* POST /reset
Reset == \E cookie \in Cookies : ResetWith(cookie)

\* GET /health
Health ==
    /\ Len(requests) < MaxRequests
    /\ LET res == health_check(app)
       IN /\ app' = res.app
          /\ requests' = Append(requests, res.req)
    /\ UNCHANGED <<env, phase, heap, issued, creations>>

Next == Startup \/ Shutdown \/ Chat \/ ChatResume \/ Reset \/ Health

Spec == Init /\ [][Next]_vars

\* ---- configuration loading alone: the environment is given, lifespan loads it ----
InitLoad ==
    /\ env \in LoadEnvs
    /\ phase = "UNINITIALIZED"
    /\ app = [has_user_sessions |-> FALSE, user_sessions |-> <<>>, config |-> NoConfig]
    /\ heap = <<>>
    /\ requests = <<>>
    /\ issued = {}
    /\ creations = <<>>

Load == StartupWith(env)

SpecLoad == InitLoad /\ [][Load]_vars

\* ---- helpers of the properties ----
\* request i obtained an agent from get_or_create_agent
Resolved(i) == requests[i].agent # NoAgent
\* request i arrived between startup and shutdown
InReady(i) == requests[i].phase = "READY"
\* agents constructed for key t between startup and shutdown
CreatedInReady(t) ==
    {k \in DOMAIN creations : creations[k].token = t /\ creations[k].phase = "READY"}

\* C1: between startup and shutdown every resolve of a token returns the same
\* agent instance: two requests of one token hold the same instance, the
\* store still maps the token to it while the process is READY, and at most
\* one instance was constructed for the token.
C1_SameInstancePerToken ==
    /\ \A i, j \in DOMAIN requests :
          (Resolved(i) /\ Resolved(j) /\ InReady(i) /\ InReady(j)
             /\ requests[i].session_id = requests[j].session_id)
          => requests[i].agent = requests[j].agent
    /\ phase = "READY" =>
          \A i \in DOMAIN requests :
             (Resolved(i) /\ InReady(i)) =>
                /\ requests[i].session_id \in DOMAIN app.user_sessions
                /\ app.user_sessions[requests[i].session_id] = requests[i].agent
    /\ \A i \in DOMAIN requests :
          (Resolved(i) /\ InReady(i)) =>
             Cardinality(CreatedInReady(requests[i].session_id)) = 1

C1_Witness ==
    /\ phase = "READY"
    /\ \E i, j \in DOMAIN requests :
          /\ i < j /\ Resolved(i) /\ Resolved(j) /\ InReady(i) /\ InReady(j)
          /\ requests[i].session_id = requests[j].session_id
          /\ requests[i].kind = "chat" /\ requests[j].kind = "reset"

\* C2: when a request for a token arrives while an earlier Chat request that
\* found the token brand-new is still suspended in achat, the later request
\* creates nothing: it gets the instance of the first one, the store is
\* left as it was, and one instance exists for the token.
C2_ConcurrentFirstUse ==
    \A i, j \in DOMAIN requests :
       (/\ i < j /\ requests[i].pc = "achat"
        /\ InReady(i) /\ InReady(j)
        /\ requests[i].session_id \notin requests[i].pre_keys
        /\ requests[j].session_id = requests[i].session_id)
       => /\ Resolved(j)
          /\ requests[j].agent = requests[i].agent
          /\ requests[j].post_keys = requests[j].pre_keys
          /\ Cardinality(CreatedInReady(requests[i].session_id)) = 1

C2_Witness ==
    \E i, j \in DOMAIN requests :
       /\ i < j /\ requests[i].pc = "achat" /\ requests[j].pc = "achat"
       /\ InReady(i) /\ InReady(j)
       /\ requests[i].session_id \notin requests[i].pre_keys
       /\ requests[j].session_id = requests[i].session_id
       /\ requests[j].agent = requests[i].agent

\* C3: the store is injective, and requests of distinct tokens never hold
\* the same agent instance.
C3_NoSharedInstance ==
    /\ \A t1, t2 \in DOMAIN app.user_sessions :
          t1 # t2 => app.user_sessions[t1] # app.user_sessions[t2]
    /\ \A i, j \in DOMAIN requests :
          (Resolved(i) /\ Resolved(j)
             /\ requests[i].session_id # requests[j].session_id)
          => requests[i].agent # requests[j].agent

C3_Witness ==
    /\ Cardinality(DOMAIN app.user_sessions) >= 2
    /\ \E i, j \in DOMAIN requests :
          /\ Resolved(i) /\ Resolved(j)
          /\ requests[i].session_id # requests[j].session_id

\* C4: a Chat request that arrives in READY without a token (absent or empty
\* cookie) and succeeds used a token that was neither issued before nor a key
\* of the store nor the token of an earlier request, the client receives that
\* token as the session cookie, and the handler added exactly that one key.
C4_FreshTokenOnFirstChat ==
    \A i \in DOMAIN requests :
       (/\ requests[i].kind = "chat" /\ InReady(i)
        /\ ~Truthy(requests[i].cookie) /\ requests[i].status = 200)
       => /\ Truthy(requests[i].session_id)
          /\ requests[i].session_id \notin requests[i].pre_known
          /\ requests[i].session_id \notin requests[i].pre_keys
          /\ \A j \in DOMAIN requests :
                j < i => requests[j].session_id # requests[i].session_id
          /\ requests[i].client_cookie = requests[i].session_id
          /\ requests[i].body_session = requests[i].session_id
          /\ requests[i].post_keys = requests[i].pre_keys \cup {requests[i].session_id}
          /\ Cardinality(requests[i].post_keys) = Cardinality(requests[i].pre_keys) + 1
          /\ Cardinality({k \in DOMAIN creations :
                            creations[k].token = requests[i].session_id}) >= 1

C4_Witness ==
    \E i \in DOMAIN requests :
       /\ requests[i].kind = "chat" /\ InReady(i)
       /\ requests[i].cookie = EmptyStr /\ requests[i].status = 200
       /\ requests[i].pre_keys # {} /\ requests[i].pre_known # {}
       /\ requests[i].client_cookie = requests[i].session_id

\* C5: a Chat request that carries a non-empty token uses it as it is: the
\* session id is the cookie, no uuid is issued for it, no cookie is set, the
\* agent is the one the store holds under the token, and a successful
\* response returns the token as session_id.
C5_PresentTokenUnchanged ==
    \A i \in DOMAIN requests :
       (requests[i].kind = "chat" /\ Truthy(requests[i].cookie))
       => /\ requests[i].session_id = requests[i].cookie
          /\ requests[i].sub_cookie = None
          /\ requests[i].client_cookie = None
          /\ requests[i].session_id \notin issued \ requests[i].pre_known
          /\ (i = Len(requests) => issued \ requests[i].pre_known = {})
          /\ (Resolved(i) /\ requests[i].phase = phase) =>
                /\ requests[i].session_id \in DOMAIN app.user_sessions
                /\ app.user_sessions[requests[i].session_id] = requests[i].agent
          /\ (Resolved(i) /\ requests[i].cookie \in requests[i].pre_keys) =>
                requests[i].post_keys = requests[i].pre_keys
          /\ requests[i].status = 200 => requests[i].body_session = requests[i].cookie

C5_Witness ==
    \E i, j \in DOMAIN requests :
       /\ j < i /\ requests[j].client_cookie # None
       /\ requests[i].kind = "chat" /\ requests[i].cookie = requests[j].client_cookie
       /\ requests[i].status = 200 /\ requests[i].agent = requests[j].agent

\* the step in which a request arrives whose handler invokes reset_memory()
\* and the call returns
ResetApplied ==
    /\ Len(requests') = Len(requests) + 1
    /\ LET r == requests'[Len(requests')]
       IN /\ r.calls # <<>> /\ r.calls[1] = "reset_memory" /\ ~r.agent_raised

\* C6: the step of a Chat with reset_memory=true or of a Reset on token t
\* empties the memory of t's agent and changes no other agent: for every
\* other key of the store the instance and its memory are as before.
C6_ResetTouchesOneSession ==
    [][ResetApplied =>
          LET r == requests'[Len(requests')]
          IN /\ heap'[r.agent].memory = <<>>
             /\ \A u \in DOMAIN app.user_sessions \ {r.session_id} :
                   /\ u \in DOMAIN app'.user_sessions
                   /\ app'.user_sessions[u] = app.user_sessions[u]
                   /\ heap'[app'.user_sessions[u]].memory
                         = heap[app.user_sessions[u]].memory
             /\ \A k \in DOMAIN heap : k # r.agent => heap'[k] = heap[k]]_vars

C6_Witness ==
    \E i \in DOMAIN requests :
       /\ requests[i].calls # <<>> /\ requests[i].calls[1] = "reset_memory"
       /\ ~requests[i].agent_raised
       /\ \E u \in DOMAIN app.user_sessions \ {requests[i].session_id} :
             /\ u \in requests[i].pre_keys
             /\ heap[app.user_sessions[u]].memory # <<>>

\* C7: a Chat request with reset_memory=true invokes reset_memory() first
\* and achat after it (achat only if the reset returned); with
\* reset_memory=false it invokes achat alone.
C7_ResetBeforeRespond ==
    \A i \in DOMAIN requests :
       (requests[i].kind = "chat" /\ Resolved(i))
       => /\ requests[i].reset_memory =>
                requests[i].calls \in {<<"reset_memory">>, <<"reset_memory", "achat">>}
          /\ (requests[i].reset_memory /\ requests[i].calls = <<"reset_memory">>) =>
                (requests[i].agent_raised /\ requests[i].status = 500)
          /\ ~requests[i].reset_memory => requests[i].calls = <<"achat">>

C7_Witness ==
    \E i \in DOMAIN requests :
       /\ requests[i].kind = "chat" /\ requests[i].reset_memory
       /\ requests[i].calls = <<"reset_memory", "achat">>
       /\ requests[i].status = 200

\* C8: a Reset request without a token (absent or empty cookie) is answered
\* 400, in every phase; it obtains no agent, invokes nothing and leaves the
\* keys of the store as they were.
C8_ResetWithoutToken ==
    \A i \in DOMAIN requests :
       (requests[i].kind = "reset" /\ ~Truthy(requests[i].cookie))
       => /\ requests[i].status = 400
          /\ requests[i].agent = NoAgent
          /\ requests[i].calls = <<>>
          /\ requests[i].post_keys = requests[i].pre_keys
          /\ requests[i].cookie \notin DOMAIN app.user_sessions
          /\ \A k \in DOMAIN creations : creations[k].token # requests[i].cookie

C8_Witness ==
    \E i \in DOMAIN requests :
       /\ requests[i].kind = "reset" /\ requests[i].cookie = EmptyStr
       /\ requests[i].status = 400 /\ requests[i].pre_keys # {}

\* the store exists when request i arrives
StoreAt(i) == requests[i].phase \in {"READY", "TERMINATED"}

\* C9: a Reset request with a token, handled while the store exists: a token
\* without an entry gets a new agent, stored under it; a token with an entry
\* leaves the keys as they are; in both cases reset_memory() is invoked on
\* the agent the store holds for the token, and the answer is the success
\* confirmation when the call returns.
C9_ResetResolvesOrCreates ==
    \A i \in DOMAIN requests :
       (requests[i].kind = "reset" /\ Truthy(requests[i].cookie) /\ StoreAt(i))
       => /\ Resolved(i)
          /\ requests[i].calls = <<"reset_memory">>
          /\ requests[i].status = (IF requests[i].agent_raised THEN 500 ELSE 200)
          /\ requests[i].cookie \notin requests[i].pre_keys =>
                /\ requests[i].post_keys = requests[i].pre_keys \cup {requests[i].cookie}
                /\ creations[requests[i].agent].token = requests[i].cookie
                /\ \A j \in DOMAIN requests :
                      j < i => requests[j].agent # requests[i].agent
          /\ requests[i].cookie \in requests[i].pre_keys =>
                requests[i].post_keys = requests[i].pre_keys
          /\ requests[i].phase = phase =>
                /\ requests[i].cookie \in DOMAIN app.user_sessions
                /\ app.user_sessions[requests[i].cookie] = requests[i].agent

C9_Witness ==
    \E i \in DOMAIN requests :
       /\ requests[i].kind = "reset" /\ requests[i].cookie \in Forged
       /\ InReady(i) /\ requests[i].cookie \notin requests[i].pre_keys
       /\ requests[i].pre_keys # {}
       /\ requests[i].status = 200

\* request i arrived while the store did not exist
NoStoreAt(i) == requests[i].phase \in {"UNINITIALIZED", "FAILED"}

\* C10, as stated: every Chat or Reset request handled while the process is
\* UNINITIALIZED is answered 500, creates no agent, invokes nothing and
\* returns no cookie.
C10_Original ==
    \A i \in DOMAIN requests :
       (requests[i].phase = "UNINITIALIZED" /\ requests[i].kind \in {"chat", "reset"})
       => /\ requests[i].status = 500
          /\ requests[i].agent = NoAgent
          /\ requests[i].calls = <<>>
          /\ requests[i].client_cookie = None

\* C10, amended: a Chat or Reset request handled while the store does not exist is
\* answered 500, except a Reset without a token, which is answered 400; in
\* every case no agent is created, nothing is invoked on an agent, the store
\* stays absent and the client receives no cookie.
C10_FailsWithoutStore ==
    /\ \A i \in DOMAIN requests :
          (NoStoreAt(i) /\ requests[i].kind \in {"chat", "reset"})
          => /\ requests[i].status =
                   (IF requests[i].kind = "reset" /\ ~Truthy(requests[i].cookie)
                    THEN 400 ELSE 500)
             /\ requests[i].pc = "done"
             /\ requests[i].agent = NoAgent
             /\ requests[i].calls = <<>>
             /\ requests[i].client_cookie = None
             /\ requests[i].body_session = None
             /\ requests[i].pre_keys = {} /\ requests[i].post_keys = {}
    /\ \A k \in DOMAIN creations : creations[k].phase \in {"READY", "TERMINATED"}
    /\ phase \in {"UNINITIALIZED", "FAILED"} =>
          (~app.has_user_sessions /\ heap = <<>>)

C10_Witness ==
    \E i \in DOMAIN requests :
       /\ requests[i].phase = "UNINITIALIZED" /\ requests[i].kind = "chat"
       /\ requests[i].cookie = None /\ requests[i].sub_cookie \in UUIDs
       /\ requests[i].status = 500 /\ requests[i].client_cookie = None

\* request i calls get_or_create_agent
Resolves(i) ==
    \/ requests[i].kind = "chat"
    \/ requests[i].kind = "reset" /\ Truthy(requests[i].cookie)

\* C11: after the shutdown step has cleared the store, a Chat or Reset
\* request that resolves its token fails with the not-initialized error (500)
\* and no agent instance is constructed.
C11_ResolveFailsAfterClear ==
    /\ \A i \in DOMAIN requests :
          (requests[i].phase = "TERMINATED" /\ Resolves(i))
          => /\ requests[i].status = 500
             /\ requests[i].agent = NoAgent
             /\ requests[i].post_keys = requests[i].pre_keys
    /\ \A k \in DOMAIN creations : creations[k].phase # "TERMINATED"

\* no request has arrived since the shutdown step
JustShutDown == phase = "TERMINATED" /\ \A i \in DOMAIN requests : requests[i].phase # "TERMINATED"

\* C12: when the shutdown step has completed the store has no entry, however
\* many sessions were live, and a health check made in that state (before
\* any other request) reports active_sessions = 0.
C12_ShutdownReleasesAll ==
    /\ JustShutDown =>
          /\ DOMAIN app.user_sessions = {}
          /\ health_check(app).req.active_sessions = 0
    /\ \A j \in DOMAIN requests :
          (/\ requests[j].kind = "health" /\ requests[j].phase = "TERMINATED"
           /\ \A k \in DOMAIN requests : k < j => requests[k].phase # "TERMINATED")
          => /\ requests[j].active_sessions = 0
             /\ requests[j].pre_keys = {}

C12_Witness ==
    \E j \in DOMAIN requests :
       /\ requests[j].kind = "health" /\ requests[j].phase = "TERMINATED"
       /\ \A k \in DOMAIN requests : k < j => requests[k].phase # "TERMINATED"
       /\ requests[j].active_sessions = 0
       /\ \E k \in DOMAIN creations : creations[k].phase = "READY"

\* C13: a health check is answered 200 in every phase, reports the number
\* of keys the store has at that moment, 0 when the store does not exist,
\* and has no effect: the keys are the same after it, it obtains no agent,
\* invokes nothing, sets no cookie and does not bring a store into being.
C13_HealthIsPure ==
    /\ \A j \in DOMAIN requests :
          requests[j].kind = "health"
          => /\ requests[j].status = 200 /\ requests[j].pc = "done"
             /\ requests[j].active_sessions =
                   (IF NoStoreAt(j) THEN 0 ELSE Cardinality(requests[j].pre_keys))
             /\ requests[j].post_keys = requests[j].pre_keys
             /\ requests[j].agent = NoAgent /\ requests[j].calls = <<>>
             /\ requests[j].client_cookie = None
             /\ (j = Len(requests) /\ requests[j].phase = phase) =>
                   DOMAIN app.user_sessions = requests[j].pre_keys
    /\ (\A i \in DOMAIN requests : requests[i].kind = "health") =>
          /\ heap = <<>> /\ DOMAIN app.user_sessions = {}
          /\ app.has_user_sessions = (phase \in {"READY", "TERMINATED"})

C13_Witness ==
    \E i, j \in DOMAIN requests :
       /\ i < j /\ Resolved(i) /\ InReady(i)
       /\ requests[j].kind = "health" /\ InReady(j)
       /\ requests[j].active_sessions = 1

\* the credentials lifespan read are not both usable
BadCredentials ==
    /\ env # NotRead
    /\ \/ env.google \in {"absent", "empty", "placeholder"}
       \/ env.tavily \in {"absent", "empty", "placeholder"}

\* C14: with a credential absent, empty or equal to its placeholder the
\* startup fails: the process is never READY, neither store nor
\* configuration is installed, no agent is ever constructed and every Chat
\* or Reset request is answered with an error.
C14_BadCredentialsAbortStartup ==
    /\ BadCredentials =>
          /\ phase = "FAILED"
          /\ ~app.has_user_sessions /\ app.config = NoConfig
          /\ heap = <<>> /\ creations = <<>>
          /\ \A i \in DOMAIN requests :
                requests[i].kind \in {"chat", "reset"} =>
                   /\ requests[i].status \in {400, 500}
                   /\ requests[i].agent = NoAgent
    /\ phase \in {"READY", "TERMINATED"} =>
          (env # NotRead /\ env.google = "valid" /\ env.tavily = "valid")

C14_Witness ==
    /\ phase = "FAILED"
    /\ env.google = "valid" /\ env.tavily = "placeholder"
    /\ \E i \in DOMAIN requests :
          /\ requests[i].kind = "chat" /\ requests[i].phase = "FAILED"
          /\ requests[i].status = 500

\* ---- what a numeric text denotes, stated without the parser ----
Spaces(n) == [i \in 1..n |-> " "]
DigitRuns == UNION {[1..n -> Digits] : n \in 0..MaxLen}
RECURSIVE PlaceSum(_, _)
PlaceSum(d, i) ==
    IF i > Len(d) THEN 0
    ELSE DigitVal(d[i]) * Pow10(Len(d) - i) + PlaceSum(d, i + 1)
Signs == {<<>>, <<"-">>}
SignOf(sg) == IF sg = <<>> THEN 1 ELSE -1

\* the texts int() accepts, with their values: blanks, a sign, digits, blanks
IntLiterals ==
    {l \in {[text |-> Spaces(a) \o sg \o d \o Spaces(b),
             value |-> SignOf(sg) * PlaceSum(d, 1)] :
               a \in 0..MaxLen, b \in 0..MaxLen, sg \in Signs,
               d \in DigitRuns \ {<<>>}} :
        Len(l.text) <= MaxLen}

\* the texts float() accepts: blanks, a sign, digits with an optional point
\* (a digit on one side of it at least), blanks
FloatShapes ==
    {x \in (0..MaxLen) \X Signs \X DigitRuns \X {<<>>, <<".">>} \X DigitRuns
              \X (0..MaxLen) :
        /\ (x[3] # <<>> \/ x[5] # <<>>)
        /\ (x[4] = <<>> => x[5] = <<>>)
        /\ x[1] + Len(x[2]) + Len(x[3]) + Len(x[4]) + Len(x[5]) + x[6] <= MaxLen}
FloatLiterals ==
    {[text |-> Spaces(x[1]) \o x[2] \o x[3] \o x[4] \o x[5] \o Spaces(x[6]),
      value |-> SignOf(x[2]) * (PlaceSum(x[3], 1) * FloatUnit
                                 + PlaceSum(x[5], 1) * Pow10(MaxLen - Len(x[5])))] :
        x \in FloatShapes}

\* the value a parameter must get: the value of a well-formed text, else the default
Expected(raw, default, literals) ==
    IF raw.set /\ \E l \in literals : l.text = raw.v
    THEN (CHOOSE l \in literals : l.text = raw.v).value
    ELSE default

\* C15: with valid credentials loading does not fail; a numeric parameter
\* whose text is no number gets its documented default (MAX_RESULTS 10,
\* MAX_CONTENT_SIZE 10000, MAX_SCRAPE_LENGTH 20000, LLM_TEMPERATURE 0.1,
\* LLM_MAX_TOKENS 3000, REQUEST_TIMEOUT 30, LLM_TIMEOUT 60), a well-formed
\* one the value of its text; SEARCH_DEPTH is kept when it is basic or
\* advanced and is basic otherwise.
C15_OptionalParametersDefault ==
    phase # "UNINITIALIZED" =>
       /\ phase = "READY"
       /\ app.config.max_results = Expected(env.MAX_RESULTS, 10, IntLiterals)
       /\ app.config.max_content_size = Expected(env.MAX_CONTENT_SIZE, 10000, IntLiterals)
       /\ app.config.max_scrape_length
             = Expected(env.MAX_SCRAPE_LENGTH, 20000, IntLiterals)
       /\ app.config.llm_temperature
             = Expected(env.LLM_TEMPERATURE, FloatUnit \div 10, FloatLiterals)
       /\ app.config.llm_max_tokens = Expected(env.LLM_MAX_TOKENS, 3000, IntLiterals)
       /\ app.config.request_timeout = Expected(env.REQUEST_TIMEOUT, 30, IntLiterals)
       /\ app.config.llm_timeout = Expected(env.LLM_TIMEOUT, 60, IntLiterals)
       /\ app.config.search_depth =
             (IF env.SEARCH_DEPTH = Str("advanced") THEN "advanced" ELSE "basic")

C15_Witness ==
    /\ phase = "READY"
    /\ env.REQUEST_TIMEOUT = Str(<<"7", "a">>)
    /\ app.config.request_timeout = 30

\* C16: the configuration is the one lifespan built at startup from the
\* environment, in every later state (requests, health checks and the
\* shutdown step leave it alone); before a successful startup there is none;
\* and every agent ever constructed holds that same configuration.
C16_ConfigurationFixed ==
    /\ phase \in {"READY", "TERMINATED"} =>
          /\ env # NotRead /\ ~create_config(env).raised
          /\ app.config = create_config(env).config
          /\ app.config # NoConfig
    /\ phase \in {"UNINITIALIZED", "FAILED"} => app.config = NoConfig
    /\ \A k \in DOMAIN heap : heap[k].config = app.config /\ heap[k].config # NoConfig

C16_Witness ==
    /\ phase = "TERMINATED"
    /\ \E k \in DOMAIN heap :
          /\ creations[k].phase = "READY"
          /\ heap[k].memory # <<>>
          /\ heap[k].config = app.config

\* C17: while the process is READY the store only grows: its keys are
\* exactly the tokens resolved since startup, each still bound to the agent
\* its requests obtained, whether those requests succeeded or failed; no
\* handler ends with fewer keys than it began with, and a later request
\* finds every key an earlier one left.
C17_RegistryOnlyGrows ==
    /\ phase = "READY" =>
          /\ DOMAIN app.user_sessions
                = {requests[i].session_id : i \in {j \in DOMAIN requests : Resolved(j)}}
          /\ Cardinality(DOMAIN app.user_sessions) = Len(creations)
          /\ \A i \in DOMAIN requests :
                /\ requests[i].post_keys \subseteq DOMAIN app.user_sessions
                /\ Resolved(i) => app.user_sessions[requests[i].session_id]
                                     = requests[i].agent
    /\ \A i \in DOMAIN requests :
          InReady(i) =>
             /\ requests[i].pre_keys \subseteq requests[i].post_keys
             /\ \A j \in DOMAIN requests :
                   (i < j /\ InReady(j)) =>
                      requests[i].post_keys \subseteq requests[j].pre_keys

C17_Witness ==
    /\ phase = "READY"
    /\ Cardinality(DOMAIN app.user_sessions) = 2
    /\ \E i \in DOMAIN requests :
          /\ requests[i].agent_raised /\ requests[i].status = 500
          /\ requests[i].session_id \in DOMAIN app.user_sessions

\* C18: nothing serializes the requests of one session: whenever a Chat
\* request of token t is suspended in achat, the store of its arrival still
\* in place and t a cookie a client can send, a Reset request for t can be
\* handled at once, and it runs reset_memory() on the very agent the
\* suspended request holds.
C18_ResetInterleavesWithChat ==
    \A i \in DOMAIN requests :
       (/\ requests[i].pc = "achat" /\ requests[i].phase = phase
        /\ requests[i].session_id \in Cookies
        /\ Len(requests) < MaxRequests)
       => ENABLED (/\ ResetWith(requests[i].session_id)
                   /\ requests'[Len(requests')].agent = requests[i].agent
                   /\ requests'[Len(requests')].calls = <<"reset_memory">>
                   /\ requests'[Len(requests')].status = 200
                   /\ requests'[i].pc = "achat"
                   /\ heap'[requests[i].agent].memory = <<>>)

C18_Witness ==
    \E i, j \in DOMAIN requests :
       /\ i < j /\ requests[i].kind = "chat" /\ requests[i].pc = "achat"
       /\ requests[j].session_id = requests[i].session_id
       /\ requests[j].agent = requests[i].agent
       /\ requests[j].kind = "reset"
       /\ requests[j].calls = <<"reset_memory">> /\ requests[j].status = 200

\* request i becomes one whose agent call raised
Raises(i) ==
    /\ i \in DOMAIN requests' /\ requests'[i].agent_raised
    /\ i \in DOMAIN requests => ~requests[i].agent_raised

\* C19: the step in which reset_memory() or achat raises for a request of
\* token t ends the request with status 500, without body or cookie, and
\* leaves every other key of the store bound to the same agent with the same
\* memory; a request that ended so is never changed again.
C19_AgentFailureSurfaces ==
    [][/\ \A i \in DOMAIN requests' :
             Raises(i) =>
                /\ requests'[i].status = 500 /\ requests'[i].pc = "done"
                /\ requests'[i].body_session = None
                /\ requests'[i].client_cookie = None
                /\ \A u \in DOMAIN app.user_sessions \ {requests'[i].session_id} :
                      /\ u \in DOMAIN app'.user_sessions
                      /\ app'.user_sessions[u] = app.user_sessions[u]
                      /\ heap'[app'.user_sessions[u]] = heap[app.user_sessions[u]]
                /\ \A k \in DOMAIN heap : heap'[k] = heap[k]
       /\ \A i \in DOMAIN requests :
             requests[i].agent_raised => requests'[i] = requests[i]]_vars

C19_Witness ==
    \E i \in DOMAIN requests :
       /\ requests[i].agent_raised /\ requests[i].status = 500
       /\ requests[i].calls = <<"achat">>
       /\ \E u \in DOMAIN app.user_sessions \ {requests[i].session_id} :
             heap[app.user_sessions[u]].memory # <<>>

\* request i is a Chat that arrived without a token and failed inside achat
FailedFirstChat(i) ==
    /\ requests[i].kind = "chat" /\ ~Truthy(requests[i].cookie)
    /\ requests[i].agent_raised
    /\ requests[i].calls # <<>> /\ requests[i].calls[Len(requests[i].calls)] = "achat"

\* C20: the entry made for a Chat that arrived without a token and failed in
\* achat stays in the store as long as the store of its arrival is in place:
\* later health checks count it; the client got no cookie, so the token is
\* no cookie a client can send and no other request ever carries it; the
\* shutdown step removes it.
C20_NoRollbackOfSession ==
    \A i \in DOMAIN requests :
       FailedFirstChat(i) =>
          /\ requests[i].status = 500 /\ requests[i].client_cookie = None
          /\ requests[i].session_id \notin Cookies
          /\ \A j \in DOMAIN requests \ {i} :
                requests[j].session_id # requests[i].session_id
          /\ requests[i].phase = phase =>
                /\ requests[i].session_id \in DOMAIN app.user_sessions
                /\ app.user_sessions[requests[i].session_id] = requests[i].agent
          /\ (InReady(i) /\ phase = "TERMINATED") =>
                requests[i].session_id \notin DOMAIN app.user_sessions
          /\ \A j \in DOMAIN requests :
                (/\ j > i /\ requests[j].kind = "health"
                 /\ requests[j].phase = requests[i].phase)
                => /\ requests[i].session_id \in requests[j].pre_keys
                   /\ requests[j].active_sessions >= 1

C20_Witness ==
    \E i, j \in DOMAIN requests :
       /\ FailedFirstChat(i) /\ InReady(i) /\ phase = "READY"
       /\ j > i /\ requests[j].kind = "health"
       /\ requests[j].active_sessions = 1
       /\ requests[j].pre_known = {requests[i].session_id}

TypeOK ==
    /\ phase \in {"UNINITIALIZED", "READY", "TERMINATED", "FAILED"}
    /\ Len(requests) <= MaxRequests
    /\ Len(creations) = Len(heap)
    /\ issued \subseteq UUIDs
====
